---- MODULE Spec2Model ----
(***************************************************************************)
(* Webeact: the call-order hook registry (Lib/hooks/hookObject.js), its    *)
(* mutex, its frame manager and the hook factories built on it.            *)
(*                                                                         *)
(* One action is one call of a public operation, executed to completion    *)
(* (JavaScript runs a synchronous call without preemption).  The only      *)
(* suspension point of the registry is `await Hook._mutex.acquire()`: an   *)
(* asynchronous operation is split into its call (up to the await) and its *)
(* resumption (the continuation, run from the microtask queue).            *)
(*                                                                         *)
(* Left out: the wall-clock fields (created/lastUsed/lastModified, kept    *)
(* only as the logical creation stamp of a record) and the write-only      *)
(* frame fields options and hookCount.  Frame ids are non-empty strings,   *)
(* as Context builds them (`webeact-ctx-<name>-<n>`).                      *)
(***************************************************************************)
EXTENDS Integers, Sequences, FiniteSets, TLC

\* ---- bounds of the model ----
MaxVal == 1          \* payload values are 0..MaxVal
MaxCreated == 2      \* records created over a whole run
MaxRenders == 1      \* cap of a frame's render counter
MaxAsync == 1        \* asynchronous operations pending at one time
MaxDepth == 1        \* withFrame calls in progress (call-stack depth)
MaxQueued == 3       \* setAsync calls pending at one time
MaxTickets == 4      \* setAsync calls over a whole run

Values == 0..MaxVal
FrameIds == {"f1", "f2"}
Null == "null"

\* the hook kinds the model uses
HookType == {"state", "effect"}

\* ---- JavaScript values held as hook data ----
Undefined == [tag |-> "undefined"]
Prim(n) == [tag |-> "prim", n |-> n]
Obj(f) == [tag |-> "object", f |-> f]
IsObject(d) == d.tag = "object"

\* mutant: patch() stores the updates alone
Spread_Replace(a, b) == b

\* { ...a, ...b }
Spread(a, b) == [k \in (DOMAIN a) \cup (DOMAIN b) |-> IF k \in DOMAIN b THEN b[k] ELSE a[k]]

\* the data useState stores; listeners start empty
StateData(v) == Obj([value |-> v, listeners |-> {}])

\* the data the other factories store is opaque here: a primitive
InitData == {Prim(n) : n \in Values}
Updates == {[value |-> n] : n \in Values}

\* ---- Map: set and delete ----
EmptyMap == [x \in {} |-> 0]
Put(f, k, v) == [x \in (DOMAIN f) \cup {k} |-> IF x = k THEN v ELSE f[x]]
Remove(f, k) == [x \in (DOMAIN f) \ {k} |-> f[x]]

VARIABLES
  hooks,          \* Hook._hooks: index -> record
  hookCounter,    \* Hook._hookCounter
  mutex,          \* Hook._mutex: [locked, queue]
  typeIndex,      \* Hook._typeIndex: kind -> set of indices
  frames,         \* Hook._frames: frame id -> frame
  currentFrame,   \* Hook._currentFrame
  currentFrameHookIndex, \* Hook._currentFrameHookIndex
  microtasks,     \* continuations of acquire() callers whose promise is resolved
  wfStack,        \* withFrame calls whose callback is running
  now,            \* logical clock stamped on records (hookData.created)
  handles,        \* every Hook instance handed to a caller, with the stamp of its record
  err,            \* what the last call threw ("ok": it returned)
  ret,            \* the Hook instance the last call constructed (NoHook: none)
  scn,            \* progress of the useState replay scenario (history)
  tickets,        \* number of setAsync calls so far (history: the order of the calls)
  lastAsync,      \* Hook instance -> the data of the last write requested of it (history)
  value,          \* State._value / Computed._value, by signal
  subscribers,    \* _subscribers of each State and Computed, in insertion order
  watchCount,     \* _watchCount of each State and Computed
  isWatched,      \* State._isWatched
  stale,          \* Computed._stale
  dependencies,   \* Computed._dependencies
  sources,        \* Watcher.sources
  wstate,         \* Watcher: "none" (not created), "active" or "stopped" (active = false)
  pending,        \* Watcher.pending
  jobs,           \* the microtasks queued by Watcher.update, oldest first
  tr,             \* what the last call did (history): evaluations, callbacks, updates
  observed,       \* Watcher -> what the get() calls of its latest run returned (history)
  props,          \* the dependency array the component passes in this render pass (deps)
                  \* and the one it passed in the pass before (prev, history)
  fxlog,          \* what the last hook-factory call did (history): callbacks, result
  cleanupCalls,   \* how often the cleanup function the effect returned last has been
                  \* invoked (history)
  closures,       \* render pass -> the data object the useReducer closures of that
                  \* pass hold
  folded,         \* the reducer folded over all dispatched actions (history)
  dynamicCallbacks \* Context.dynamicCallbacks: key -> array of {handler, metadata}

vars == <<hooks, hookCounter, mutex, typeIndex, frames, currentFrame,
          currentFrameHookIndex, microtasks, wfStack, now, handles, err, ret, scn,
          tickets, lastAsync, value, subscribers, watchCount, isWatched, stale,
          dependencies, sources, wstate, pending, jobs, tr, observed, props, fxlog,
          cleanupCalls, closures, folded, dynamicCallbacks>>

regVars == <<hooks, hookCounter, typeIndex>>
frameVars == <<frames, currentFrame, currentFrameHookIndex>>
lockVars == <<mutex, microtasks>>
asyncVars == <<tickets, lastAsync>>
sigVars == <<value, subscribers, watchCount, isWatched, stale, dependencies, sources,
             wstate, pending, jobs, tr, observed>>
reducerVars == <<closures, folded>>
fxVars == <<props, fxlog, cleanupCalls, closures, folded, dynamicCallbacks>>
hookVars == <<hooks, hookCounter, mutex, typeIndex, frames, currentFrame,
              currentFrameHookIndex, microtasks, wfStack, now, handles, err, ret, scn,
              tickets, lastAsync, props, fxlog, cleanupCalls, closures, folded,
              dynamicCallbacks>>

NoHook == [type |-> "", idx |-> -1]
HandleOf(h) == [type |-> h.type, idx |-> h.idx]

Idle == [phase |-> "idle", frame |-> Null, handle |-> NoHook, expect |-> 0,
         sets |-> 0, init |-> 0]

\* a call that constructs no Hook ends with error e
Ends(e) == err' = e /\ ret' = NoHook

HookInit ==
  /\ hooks = EmptyMap
  /\ hookCounter = 0
  /\ mutex = [locked |-> FALSE, queue |-> <<>>]
  /\ typeIndex = EmptyMap
  /\ frames = EmptyMap
  /\ currentFrame = Null
  /\ currentFrameHookIndex = 0
  /\ microtasks = <<>>
  /\ wfStack = <<>>
  /\ now = 0
  /\ handles = {}
  /\ err = "ok"
  /\ ret = NoHook
  /\ scn = Idle
  /\ tickets = 0
  /\ lastAsync = EmptyMap
  /\ props = [deps |-> <<>>, prev |-> <<>>]
  /\ fxlog = [op |-> "", called |-> <<>>, caught |-> 0, rendered |-> FALSE,
              returned |-> Undefined]
  /\ cleanupCalls = 0
  /\ closures = EmptyMap
  /\ folded = 0
  /\ dynamicCallbacks = EmptyMap

\* ---- SimpleMutex ----
\* tryAcquire() on an unlocked mutex
Locked(m) == [m EXCEPT !.locked = TRUE]

\* mutant: release() marks the mutex free also when it wakes a waiter
ReleaseMutex_Frees(m) ==
  [locked |-> FALSE, queue |-> IF Len(m.queue) > 0 THEN Tail(m.queue) ELSE m.queue]

\* mutant: release() calls the first waiter and leaves it in the queue
ReleaseMutex_KeepsWaiter(m) == [m EXCEPT !.locked = Len(m.queue) > 0]

\* release(): hand over to the first queued waiter, or unlock
ReleaseMutex(m) ==
  IF Len(m.queue) > 0 THEN [m EXCEPT !.queue = Tail(@)] ELSE [m EXCEPT !.locked = FALSE]
\* the waiter release() resolves is resumed from the microtask queue
ReleaseTasks(m, t) ==
  IF Len(m.queue) > 0 THEN Append(t, Head(m.queue)) ELSE t

\* a synchronous mutator: tryAcquire ... finally release
SyncLockCycle ==
  /\ mutex' = ReleaseMutex(Locked(mutex))
  /\ microtasks' = ReleaseTasks(Locked(mutex), microtasks)

\* ---- Hook instance methods ----
\* get(), against a registry map hk
GetIn(hk, h) ==
  IF h.idx \in DOMAIN hk /\ hk[h.idx].type = h.type THEN hk[h.idx].data ELSE Undefined

Get(h) == GetIn(hooks, h)

\* isValid(), against a registry map hk
IsValidIn(hk, h) ==
  h.idx \in DOMAIN hk /\ hk[h.idx].type = h.type /\ hk[h.idx].index = h.idx

\* set(): the record exists and has the handle's kind
Writable(h) == h.idx \in DOMAIN hooks /\ hooks[h.idx].type = h.type

\* mutant: destroy() removes the record and leaves the by-kind index as it was
DestroyIn_KeepsIndex(reg, h) ==
  IF IsValidIn(reg.hooks, h)
  THEN [hooks |-> Remove(reg.hooks, h.idx), typeIndex |-> reg.typeIndex]
  ELSE reg

\* destroy() inside the lock, on a registry reg = [hooks, typeIndex]
DestroyIn(reg, h) ==
  IF IsValidIn(reg.hooks, h)
  THEN [hooks |-> Remove(reg.hooks, h.idx),
        typeIndex |->
          IF h.type \in DOMAIN reg.typeIndex
          THEN LET typeSet == reg.typeIndex[h.type] \ {h.idx}
               IN IF typeSet = {} THEN Remove(reg.typeIndex, h.type)
                                  ELSE Put(reg.typeIndex, h.type, typeSet)
          ELSE reg.typeIndex]
  ELSE reg

\* Hook.getHooksByType(hookType), as a set
GetHooksByType(hookType) ==
  IF hookType \notin DOMAIN typeIndex
  THEN {}
  ELSE {hooks[i] : i \in typeIndex[hookType] \cap DOMAIN hooks}

\* ---- frame lookups ----
\* frame.hooks.get(frameIndex) of Hook._getFrameHook; NoHook stands for null
FrameHookAt(frameId, frameIndex) ==
  IF frameId \in DOMAIN frames /\ frameIndex \in DOMAIN frames[frameId].hooks
  THEN frames[frameId].hooks[frameIndex]
  ELSE NoHook

\* mutant: the kind of the instance found is not compared
TypeMismatch_Unchecked(frameId, frameIndex, expectedType) == FALSE

\* Hook._getFrameHook throws when the instance found has another kind
TypeMismatch(frameId, frameIndex, expectedType) ==
  /\ FrameHookAt(frameId, frameIndex) # NoHook
  /\ FrameHookAt(frameId, frameIndex).type # expectedType

\* Hook._registerFrameHook
RegisterFrameHook(frameId, frameIndex, hookInstance) ==
  IF frameId \in DOMAIN frames
  THEN [frames EXCEPT ![frameId].hooks = Put(@, frameIndex, hookInstance)]
  ELSE frames

\* ---- new Hook(info, hookType) ----
\* the record the constructor stores
HookData(info, hookType) ==
  [type |-> hookType, index |-> hookCounter, data |-> info, created |-> now,
   frameId |-> currentFrame,
   frameIndex |-> IF currentFrame # Null THEN currentFrameHookIndex ELSE -1]

\* mutant: the reuse path stores the initial data of the replayed call
ReusedHooks_Reinitialised(info, existing) ==
  IF existing.idx \in DOMAIN hooks THEN [hooks EXCEPT ![existing.idx].data = info] ELSE hooks

\* the registry after the constructor has reused the instance of a frame position
ReusedHooks(info, existing) == hooks

Construct(info, hookType) ==
  LET inFrame == currentFrame # Null
      existing == IF inFrame THEN FrameHookAt(currentFrame, currentFrameHookIndex) ELSE NoHook
      this == [type |-> hookType, idx |-> hookCounter]
  IN
  IF inFrame /\ TypeMismatch(currentFrame, currentFrameHookIndex, hookType) THEN
    /\ Ends("HookKindMismatch")
    /\ UNCHANGED <<regVars, frameVars, lockVars, wfStack, now, handles>>
  ELSE IF existing # NoHook THEN
    \* reuse: the instance takes the kind and index of the registered one
    /\ currentFrameHookIndex' = currentFrameHookIndex + 1
    /\ hooks' = ReusedHooks(info, existing)
    /\ err' = "ok"
    /\ ret' = existing
    /\ UNCHANGED <<hookCounter, typeIndex, frames, currentFrame, lockVars, wfStack, now,
                   handles>>
  ELSE IF mutex.locked THEN
    /\ Ends("LockContention")
    /\ UNCHANGED <<regVars, frameVars, lockVars, wfStack, now, handles>>
  ELSE
    /\ now < MaxCreated
    /\ hooks' = Put(hooks, this.idx, HookData(info, hookType))
    /\ hookCounter' = hookCounter + 1
    /\ typeIndex' = Put(typeIndex, hookType,
                        (IF hookType \in DOMAIN typeIndex THEN typeIndex[hookType] ELSE {})
                          \cup {this.idx})
    /\ frames' = IF inFrame THEN RegisterFrameHook(currentFrame, currentFrameHookIndex, this)
                             ELSE frames
    /\ currentFrameHookIndex' = IF inFrame THEN currentFrameHookIndex + 1
                                           ELSE currentFrameHookIndex
    /\ SyncLockCycle
    /\ now' = now + 1
    /\ handles' = handles \cup {[type |-> hookType, idx |-> this.idx, created |-> now]}
    /\ err' = "ok"
    /\ ret' = this
    /\ UNCHANGED <<currentFrame, wfStack>>

\* a factory other than useState building its hook
NewHook(info, hookType) == Construct(info, hookType)

\* useState(initialValue)
UseState(initialValue) == Construct(StateData(initialValue), "state")

\* mutant: set() without tryAcquire
SetError_Unlocked(h) == IF ~Writable(h) THEN "InvalidHook" ELSE "ok"

\* ---- set / patch / destroy ----
\* what set(info) throws; "ok" when it returns
SetError(h) ==
  IF mutex.locked THEN "LockContention"
  ELSE IF ~Writable(h) THEN "InvalidHook"
  ELSE "ok"

\* set(info): tryAcquire, write the record's data, release in finally
DoSet(h, info) ==
  /\ hooks' = IF SetError(h) = "ok" THEN [hooks EXCEPT ![h.idx].data = info] ELSE hooks
  /\ IF mutex.locked THEN UNCHANGED lockVars ELSE SyncLockCycle
  /\ UNCHANGED <<hookCounter, typeIndex>>

HookSet(h, info) ==
  /\ DoSet(h, info)
  /\ Ends(SetError(h))
  /\ UNCHANGED <<frameVars, wfStack, now, handles>>

\* mutant: patch() without the check of the current data
PatchError_Unchecked(h) == SetError(h)

\* what patch(updates) throws
PatchError(h) ==
  IF ~IsObject(Get(h)) THEN "InvalidPatchTarget" ELSE SetError(h)

\* patch(updates): this.set({ ...currentData, ...updates })
DoPatch(h, updates) ==
  IF ~IsObject(Get(h))
  THEN UNCHANGED <<regVars, lockVars>>
  ELSE DoSet(h, Obj(Spread(Get(h).f, updates)))

HookPatch(h, updates) ==
  /\ DoPatch(h, updates)
  /\ Ends(PatchError(h))
  /\ UNCHANGED <<frameVars, wfStack, now, handles>>

\* destroy()
HookDestroy(h) ==
  LET reg == DestroyIn([hooks |-> hooks, typeIndex |-> typeIndex], h) IN
  /\ IF mutex.locked
     THEN UNCHANGED <<hooks, typeIndex, lockVars>>
     ELSE /\ hooks' = reg.hooks
          /\ typeIndex' = reg.typeIndex
          /\ SyncLockCycle
  /\ Ends(IF mutex.locked THEN "LockContention" ELSE "ok")
  /\ UNCHANGED <<hookCounter, frameVars, wfStack, now, handles>>

\* ---- the setter useState returns ----
\* a setter argument is a value or the updater v => (v + 1) % (MaxVal + 1)
SetterArgs == {[fn |-> FALSE, v |-> n] : n \in Values} \cup {[fn |-> TRUE, v |-> 0]}
ActualNewValue(newValue, current) ==
  IF newValue.fn THEN (current + 1) % (MaxVal + 1) ELSE newValue.v

\* the setter stores a value only when it differs from the current one
Differs(current, actualNewValue) == current # actualNewValue

SetValue(h, newValue) ==
  LET currentData == Get(h)
      actualNewValue == ActualNewValue(newValue, currentData.f.value)
  IN
  IF currentData.tag = "undefined" THEN
    /\ Ends("ok")
    /\ UNCHANGED <<regVars, frameVars, lockVars, wfStack, now, handles>>
  ELSE IF Differs(currentData.f.value, actualNewValue) THEN
    /\ DoPatch(h, [value |-> actualNewValue])
    /\ Ends(PatchError(h))
    /\ UNCHANGED <<frameVars, wfStack, now, handles>>
  ELSE
    /\ Ends("ok")
    /\ UNCHANGED <<regVars, frameVars, lockVars, wfStack, now, handles>>

\* ---- asynchronous mutators: await Hook._mutex.acquire() ----
Pending == Len(mutex.queue) + Len(microtasks)

\* mutant: acquire() puts the waiter at the front of the queue
Acquire_Lifo(task) ==
  IF ~mutex.locked
  THEN /\ mutex' = Locked(mutex)
       /\ microtasks' = Append(microtasks, task)
  ELSE /\ mutex' = [mutex EXCEPT !.queue = <<task>> \o @]
       /\ UNCHANGED microtasks

\* acquire(): take a free lock (the caller resumes in a later microtask) or queue
Acquire(task) ==
  IF ~mutex.locked
  THEN /\ mutex' = Locked(mutex)
       /\ microtasks' = Append(microtasks, task)
  ELSE /\ mutex' = [mutex EXCEPT !.queue = Append(@, task)]
       /\ UNCHANGED microtasks

\* mutant: the resumed holder finishes without calling release()
ReleaseResumed_Forgotten ==
  /\ mutex' = mutex
  /\ microtasks' = Tail(microtasks)

\* the release() of a resumed holder, which leaves the microtask queue
ReleaseResumed ==
  /\ mutex' = ReleaseMutex(mutex)
  /\ microtasks' = ReleaseTasks(mutex, Tail(microtasks))

\* Hook.clearAll(), up to its await
ClearAllCall ==
  /\ Pending < MaxAsync
  /\ Acquire([op |-> "clearAll"])
  /\ Ends("ok")
  /\ UNCHANGED <<regVars, frameVars, wfStack, now, handles>>

\* the counter clearAll leaves
ClearedCounter == 0

\* Hook.clearAll(), resumed holding the lock
ClearAllResume ==
  /\ wfStack = <<>>
  /\ microtasks # <<>>
  /\ Head(microtasks).op = "clearAll"
  /\ hooks' = EmptyMap
  /\ typeIndex' = EmptyMap
  /\ frames' = EmptyMap
  /\ hookCounter' = ClearedCounter
  /\ currentFrame' = Null
  /\ currentFrameHookIndex' = 0
  /\ ReleaseResumed
  /\ Ends("ok")
  /\ UNCHANGED <<wfStack, now, handles>>

\* ---- frames ----
\* mutant: startFrame without its reentrancy check
FrameBusy_Unchecked == FALSE

\* startFrame refuses to run while a frame is active
FrameBusy == currentFrame # Null

\* the frame record startFrame leaves for frameId
StartedFrame(frameId) ==
  IF frameId \notin DOMAIN frames
  THEN [hooks |-> EmptyMap, renderCount |-> 0, isActive |-> TRUE]
  ELSE [frames[frameId] EXCEPT !.renderCount = @ + 1, !.isActive = TRUE]

\* Hook.startFrame(frameId) past its reentrancy check
DoStartFrame(frameId) ==
  /\ currentFrame' = frameId
  /\ currentFrameHookIndex' = 0
  /\ frames' = Put(frames, frameId, StartedFrame(frameId))

\* the render counter is capped to keep the model finite
CanRender(frameId) ==
  frameId \in DOMAIN frames => frames[frameId].renderCount < MaxRenders

StartFrame(frameId) ==
  /\ IF FrameBusy
     THEN /\ Ends("FrameReentrancy")
          /\ UNCHANGED frameVars
     ELSE /\ CanRender(frameId)
          /\ DoStartFrame(frameId)
          /\ Ends("ok")
  /\ UNCHANGED <<regVars, lockVars, wfStack, now, handles>>

\* mutant: endFrame leaves the frame marked active
EndedFrames_StillActive == frames

\* the frames map endFrame leaves
EndedFrames ==
  IF currentFrame \in DOMAIN frames
  THEN [frames EXCEPT ![currentFrame].isActive = FALSE]
  ELSE frames

\* Hook.endFrame()
DoEndFrame ==
  IF currentFrame = Null
  THEN UNCHANGED frameVars
  ELSE /\ frames' = EndedFrames
       /\ currentFrame' = Null
       /\ currentFrameHookIndex' = 0

EndFrame ==
  /\ DoEndFrame
  /\ Ends("ok")
  /\ UNCHANGED <<regVars, lockVars, wfStack, now, handles>>

\* Hook.withFrame(frameId, callback): startFrame, then the callback runs
WithFrameEnter(frameId) ==
  /\ Len(wfStack) < MaxDepth
  /\ IF FrameBusy
     THEN /\ Ends("FrameReentrancy")
          /\ UNCHANGED <<frameVars, wfStack>>
     ELSE /\ CanRender(frameId)
          /\ DoStartFrame(frameId)
          /\ wfStack' = Append(wfStack, frameId)
          /\ Ends("ok")
  /\ UNCHANGED <<regVars, lockVars, now, handles>>

\* mutant: endFrame after the callback, without try/finally
EndsFrame_OnReturnOnly(threw) == ~threw

\* whether withFrame runs endFrame when its callback ends (finally: always)
EndsFrame(threw) == TRUE

\* Hook.withFrame: the callback returned, or threw (the error of the call it
\* made last, or one of its own), and withFrame lets the error through
WithFrameExit(threw) ==
  /\ wfStack # <<>>
  /\ wfStack' = SubSeq(wfStack, 1, Len(wfStack) - 1)
  /\ IF EndsFrame(threw) THEN DoEndFrame ELSE UNCHANGED frameVars
  /\ Ends(IF ~threw THEN "ok" ELSE IF err # "ok" THEN err ELSE "CallbackError")
  /\ UNCHANGED <<regVars, lockVars, now, handles>>

\* the hook instances of a frame, in the order of frame.hooks.values()
RECURSIVE FrameHookSeq(_, _)
FrameHookSeq(frameHooks, n) ==
  IF n = 0 THEN <<>>
  ELSE IF (n - 1) \in DOMAIN frameHooks
       THEN Append(FrameHookSeq(frameHooks, n - 1), frameHooks[n - 1])
       ELSE FrameHookSeq(frameHooks, n - 1)

\* clearFrame's loop: destroy() on each instance, a throw is caught and logged
RECURSIVE DestroyEach(_, _)
DestroyEach(reg, hs) ==
  IF hs = <<>> THEN reg
  ELSE DestroyEach(IF mutex.locked THEN reg ELSE DestroyIn(reg, Head(hs)), Tail(hs))

\* Hook.clearFrame(frameId)
ClearFrame(frameId) ==
  IF frameId \notin DOMAIN frames THEN
    /\ Ends("ok")
    /\ UNCHANGED <<regVars, frameVars, lockVars, wfStack, now, handles>>
  ELSE
    LET reg == DestroyEach([hooks |-> hooks, typeIndex |-> typeIndex],
                           FrameHookSeq(frames[frameId].hooks,
                                        Cardinality(DOMAIN frames[frameId].hooks)))
    IN
    /\ hooks' = reg.hooks
    /\ typeIndex' = reg.typeIndex
    /\ frames' = Remove(frames, frameId)
    /\ IF currentFrame = frameId
       THEN currentFrame' = Null /\ currentFrameHookIndex' = 0
       ELSE UNCHANGED <<currentFrame, currentFrameHookIndex>>
    /\ Ends("ok")
    /\ UNCHANGED <<hookCounter, lockVars, wfStack, now, handles>>

\* ---- the useState replay scenario, followed as a history ----
\* startFrame(f); useState(init) at position 0 [further hooks]; endFrame();
\* setter calls; startFrame(f); useState(init) at position 0.
\* Any other call abandons the scenario.
Abandon == scn' = Idle

ScnUseState(initialValue) ==
  scn' =
    IF err' = "ok" /\ currentFrame # Null /\ currentFrameHookIndex = 0 THEN
      IF scn.phase = "restarted" /\ scn.frame = currentFrame
      THEN [scn EXCEPT !.phase = "replayed", !.handle = ret', !.init = initialValue]
      ELSE IF IsObject(GetIn(hooks', ret'))
      THEN [phase |-> "used", frame |-> currentFrame, handle |-> ret',
            expect |-> GetIn(hooks', ret').f.value, sets |-> 0, init |-> 0]
      ELSE Idle
    ELSE IF err' = "ok" /\ scn.phase = "used" THEN scn
    ELSE Idle

ScnNewHook ==
  scn' = IF err' = "ok" /\ scn.phase = "used" /\ currentFrameHookIndex > 0 THEN scn ELSE Idle

ScnEndFrame ==
  scn' = IF scn.phase = "used" /\ scn.frame = currentFrame
         THEN [scn EXCEPT !.phase = "ended"] ELSE Idle

\* an effective setter call: it found the data and did not throw
ScnSetValue(h, newValue) ==
  scn' =
    IF scn.phase = "ended" /\ h = scn.handle THEN
      IF err' = "ok" /\ IsObject(Get(h))
      THEN [scn EXCEPT !.expect = ActualNewValue(newValue, Get(h).f.value), !.sets = 1]
      ELSE scn
    ELSE Idle

ScnStartFrame(frameId) ==
  scn' = IF err' = "ok" /\ scn.phase = "ended" /\ scn.frame = frameId
         THEN [scn EXCEPT !.phase = "restarted"] ELSE Idle

\* =================== signals (Lib/Signals.js) ===================
\* the graph the model builds: three States, the Computeds
\*   X = new Computed(() => C.get() ? A.get() : B.get())
\*   Y = new Computed(() => X.get() + A.get())
\* and the effects  W1: A.get(); B.get(); C.get()   W2: Y.get()
States == {"A", "B", "C"}
Computeds == {"X", "Y"}
Signals == States \cup Computeds
Watchers == {"W1", "W2"}
MaxWatch == 3        \* cap of a signal's _watchCount
MaxVisits == 12      \* cap of the places one notification loop visits

\* no Watcher (currentWatcher = null); the place of an element deleted from a Set
Gone == ""

\* a JavaScript Set keeps insertion order; an element deleted while the Set is
\* iterated leaves its place empty, and one added again goes to the end
Has(set, x) == \E i \in 1..Len(set) : set[i] = x
SetAdd(set, x) == IF Has(set, x) THEN set ELSE Append(set, x)
SetDelete(set, x) == [i \in 1..Len(set) |-> IF set[i] = x THEN Gone ELSE set[i]]
Present(x) == x # Gone
Compact(set) == SelectSeq(set, Present)
Members(set) == {set[i] : i \in 1..Len(set)} \ {Gone}

\* the history of one call: how often each compute function ran, how often each
\* Computed's _addSubscriber was called, the Watcher
\* callbacks started, the lifecycle callbacks fired, each Computed.update call
\* (flag and dependency before it; what it did; flag after it), what each get()
\* of a Computed by a Watcher run or an evaluating Computed returned, the
\* untrack calls (ambient state before, inside and after; links kept), the Watchers
\* notified while a run of theirs was pending, and whether a notification loop
\* was cut at MaxVisits
NoTrace ==
  [evals |-> [c \in Computeds |-> 0], subs |-> [c \in Computeds |-> 0], ran |-> <<>>, fired |-> <<>>, updates |-> <<>>,
   skipped |-> {}, reads |-> {}, untracks |-> {}, cut |-> FALSE, op |-> "", arg |-> ""]

\* the signals as a call sees them: the objects' fields, the ambient tracking
\* state (currentWatcher, currentComputedStack) and the value a get() returns
Graph ==
  [value |-> value, subscribers |-> subscribers, watchCount |-> watchCount,
   isWatched |-> isWatched, stale |-> stale, dependencies |-> dependencies,
   sources |-> sources, wstate |-> wstate, pending |-> pending, jobs |-> jobs,
   tr |-> NoTrace, currentWatcher |-> Gone, currentComputedStack |-> <<>>, result |-> 0]

\* mutant: set() notifies whatever the value
Equals_Never(a, b) == FALSE

\* this._equals: Object.is
Equals(a, b) == a = b

\* the one value a statement leaves behind: each statement of a call is
\* evaluated once, on the value the statement before it left
The(S) == CHOOSE x \in S : TRUE

RECURSIVE AddSubscriber(_, _, _), TrackDependency(_, _), SignalGet(_, _), Evaluate(_, _),
          ComputeOf(_, _), Update(_, _, _), Notify(_, _, _)

\* State._addSubscriber / Computed._addSubscriber
AddSubscriber(gg, sig, subscriber) ==
  The({ LET g0 == [g EXCEPT !.subscribers[sig] = SetAdd(@, subscriber),
                            !.watchCount[sig] = @ + 1]
            g1 == IF sig \in Computeds THEN [g0 EXCEPT !.tr.subs[sig] = @ + 1] ELSE g0
        IN IF sig \in Computeds /\ g.stale[sig]
           THEN The({ [g2 EXCEPT !.value[sig] = g2.result, !.stale[sig] = FALSE]
                      : g2 \in {Evaluate(g1, sig)} })
           ELSE g1
        : g \in {gg} })

\* trackDependency(signal)
TrackDependency(gg, sig) ==
  The({ The({ LET top == g.currentComputedStack[Len(g.currentComputedStack)]
              IN IF Len(g.currentComputedStack) > 0
                 THEN [AddSubscriber(g1, sig, top) EXCEPT !.dependencies[top] = @ \cup {sig}]
                 ELSE g1
              : g1 \in {IF g.currentWatcher # Gone
                        THEN [AddSubscriber(g, sig, g.currentWatcher)
                                EXCEPT !.sources[g.currentWatcher] = @ \cup {sig}]
                        ELSE g} })
        : g \in {gg} })

\* a Watcher run or a Computed evaluation is collecting what is read
Tracking(g) == g.currentWatcher # Gone \/ Len(g.currentComputedStack) > 0

\* State.get / Computed.get
SignalGet(g, sig) ==
  The({ [g1 EXCEPT !.result = g1.value[sig],
                   !.tr.reads = IF sig \in Computeds /\ Tracking(g1)
                                THEN @ \cup {<<sig, g1.value[sig]>>} ELSE @]
        : g1 \in {TrackDependency(g, sig)} })

\* mutant: untrack leaves the ambient tracking state in place
UntrackCleared_Not(g) == g

\* untrack: currentWatcher = null; currentComputedStack.length = 0
UntrackCleared(g) == [g EXCEPT !.currentWatcher = Gone, !.currentComputedStack = <<>>]

\* untrack, finally: currentWatcher = prevWatcher; the stack is refilled
UntrackRestored(g, prevWatcher, prevComputedStack) ==
  [g EXCEPT !.currentWatcher = prevWatcher,
            !.currentComputedStack = <<>> \o prevComputedStack]

\* the subscriber sets, counts, sources and dependencies
Links(g) == <<g.subscribers, g.watchCount, g.sources, g.dependencies>>

\* Signal.subtle.untrack(fn) where fn reads sig and then returns or throws; the
\* caller catches what fn throws
Untrack(gg, sig, threw) ==
  The({ The({ The({ [after EXCEPT
                       !.tr.untracks = @ \cup
                          {[watcher |-> g.currentWatcher, stack |-> g.currentComputedStack,
                            read |-> sig, threw |-> threw,
                            watcherInside |-> inside.currentWatcher,
                            stackInside |-> inside.currentComputedStack,
                            watcherAfter |-> after.currentWatcher,
                            stackAfter |-> after.currentComputedStack,
                            kept |-> Links(after) = Links(g)]}]
                    : after \in {UntrackRestored(inside, g.currentWatcher,
                                                 g.currentComputedStack)} })
              : inside \in {SignalGet(UntrackCleared(g), sig)} })
        : g \in {gg} })

\* the compute functions: X = C ? A : B;  Y = (untrack(() => B.get()), X + A)
ComputeOf(g, c) ==
  IF c = "X"
  THEN The({ IF r.result = 1 THEN SignalGet(r, "A") ELSE SignalGet(r, "B")
             : r \in {SignalGet(g, "C")} })
  ELSE The({ The({ [r2 EXCEPT !.result = (r1.result + r2.result) % (MaxVal + 1)]
                   : r2 \in {SignalGet(r1, "A")} })
             : r1 \in {SignalGet(Untrack(g, "B", FALSE), "X")} })

\* Computed._evaluate
Evaluate(gg, c) ==
  The({ The({ [g2 EXCEPT !.currentComputedStack = SubSeq(@, 1, Len(@) - 1)]
              : g2 \in {ComputeOf(
                   [g EXCEPT
                      !.subscribers = [sig \in Signals |->
                                         IF sig \in g.dependencies[c]
                                         THEN SetDelete(@[sig], c) ELSE @[sig]],
                      !.watchCount = [sig \in Signals |->
                                        IF sig \in g.dependencies[c]
                                        THEN @[sig] - 1 ELSE @[sig]],
                      !.dependencies[c] = {},
                      !.currentComputedStack = Append(@, c),
                      !.tr.evals[c] = @ + 1], c)} })
        : g \in {gg} })

\* mutant: Watcher.update queues a run although one is pending
AlreadyPending_Never(g, w) == FALSE

\* Watcher.update: if (!this.pending)
AlreadyPending(g, w) == g.pending[w]

\* mutant: Computed.update leaves the flag as the recomputation left it
StaleAfterUpdate_Kept(flag) == flag

\* Computed.update: this._stale = true, at its end
StaleAfterUpdate(flag) == TRUE

\* the record of a Computed.update call, as the call begins
UpdateSeen(g, subscriber, source) ==
  [to |-> subscriber, from |-> source,
   subs |-> g.tr.subs[subscriber],
   fresh |-> ~g.stale[subscriber],
   tracked |-> source \in g.dependencies[subscriber],
   evaluated |-> FALSE, notified |-> FALSE, same |-> TRUE, staleAfter |-> FALSE]

\* Watcher.update(source) and Computed.update(source)
Update(gg, subscriber, source) ==
  The({ IF subscriber \in Watchers THEN
          IF g.wstate[subscriber] # "active" \/ source \notin g.sources[subscriber] THEN g
          ELSE IF AlreadyPending(g, subscriber)
          THEN [g EXCEPT !.tr.skipped = @ \cup {subscriber}]
          ELSE [g EXCEPT !.pending[subscriber] = TRUE, !.jobs = Append(@, subscriber)]
        ELSE
          LET k == Len(g.tr.updates) + 1
              seen == [g EXCEPT !.tr.updates = Append(@, UpdateSeen(g, subscriber, source))]
          IN The({ [done EXCEPT
                      !.stale[subscriber] = StaleAfterUpdate(@),
                      !.tr.updates[k].evaluated =
                         done.tr.evals[subscriber] > g.tr.evals[subscriber],
                      !.tr.updates[k].same = (done.value[subscriber] = g.value[subscriber]),
                      !.tr.updates[k].staleAfter = StaleAfterUpdate(done.stale[subscriber])]
                   : done \in
                       {IF ~g.stale[subscriber] /\ source \in g.dependencies[subscriber]
                        THEN The({ IF ~Equals(e.value[subscriber], e.result)
                                   THEN Notify([e EXCEPT !.value[subscriber] = e.result,
                                                         !.stale[subscriber] = FALSE,
                                                         !.tr.updates[k].notified = TRUE],
                                               subscriber, 1)
                                   ELSE e
                                   : e \in {Evaluate(seen, subscriber)} })
                        ELSE seen} })
        : g \in {gg} })

\* for (const subscriber of this._subscribers) subscriber.update(this), from place i
Notify(gg, sig, i) ==
  The({ IF i > Len(g.subscribers[sig]) THEN g
        ELSE IF i > MaxVisits THEN [g EXCEPT !.tr.cut = TRUE]
        ELSE Notify(IF g.subscribers[sig][i] = Gone THEN g
                    ELSE Update(g, g.subscribers[sig][i], sig),
                    sig, i + 1)
        : g \in {gg} })

\* State.set(v): the lifecycle callbacks after the notifications
Lifecycle(gg, s) ==
  The({ IF g.watchCount[s] > 0 /\ ~g.isWatched[s]
        THEN [g EXCEPT !.isWatched[s] = TRUE, !.tr.fired = Append(@, <<s, "watched">>)]
        ELSE IF g.watchCount[s] = 0 /\ g.isWatched[s]
        THEN [g EXCEPT !.isWatched[s] = FALSE, !.tr.fired = Append(@, <<s, "unwatched">>)]
        ELSE g
        : g \in {gg} })

\* State.set(v)
StateSet(gg, s, v) ==
  The({ IF Equals(g.value[s], v) THEN g
        ELSE Lifecycle(Notify([g EXCEPT !.value[s] = v], s, 1), s)
        : g \in {gg} })

\* the callbacks of the effects: W1 reads A, B, C, B again, and then X inside
\* an untrack whose function throws; W2 reads Y
CallbackOf(g, w) ==
  IF w = "W1"
  THEN Untrack(SignalGet(SignalGet(SignalGet(SignalGet(g, "A"), "B"), "C"), "B"), "X", TRUE)
  ELSE SignalGet(g, "Y")

\* mutant: the sources are forgotten, the subscriptions stay
Unsubscribed_SourcesOnly(gg, w) == [gg EXCEPT !.sources[w] = {}]

\* the sources of a Watcher are unsubscribed (run and stop)
Unsubscribed(gg, w) ==
  The({ [g EXCEPT
           !.subscribers = [sig \in Signals |->
                              IF sig \in g.sources[w] THEN SetDelete(@[sig], w) ELSE @[sig]],
           !.watchCount = [sig \in Signals |->
                             IF sig \in g.sources[w] THEN @[sig] - 1 ELSE @[sig]],
           !.sources[w] = {}]
        : g \in {gg} })

\* Watcher.run
WatcherRun(gg, w) ==
  The({ IF g.wstate[w] # "active" THEN g
        ELSE [CallbackOf([Unsubscribed(g, w) EXCEPT !.currentWatcher = w,
                                                    !.tr.ran = Append(@, w)], w)
                EXCEPT !.currentWatcher = Gone]
        : g \in {gg} })

\* the microtask Watcher.update queued
WatcherJob(gg, w) ==
  The({ IF g.wstate[w] = "active" THEN WatcherRun([g EXCEPT !.pending[w] = FALSE], w) ELSE g
        : g \in {gg} })

\* mutant: stop() marks the Watcher inactive and leaves it subscribed
WatcherStop_Subscribed(g, w) == [g EXCEPT !.wstate[w] = "stopped"]

\* Watcher.stop
WatcherStop(g, w) == [Unsubscribed(g, w) EXCEPT !.wstate[w] = "stopped"]

\* new Computed(compute): the first evaluation leaves _stale true
NewComputed(g, c) ==
  The({ [e EXCEPT !.value[c] = e.result] : e \in {Evaluate(g, c)} })

\* the call is over: the fields as it leaves them
Commit(gg, op, arg) ==
  \E g \in {gg} :
    /\ \A sig \in Signals : g.watchCount[sig] <= MaxWatch
    /\ value' = g.value
    /\ subscribers' = [sig \in Signals |-> Compact(g.subscribers[sig])]
    /\ watchCount' = g.watchCount
    /\ isWatched' = g.isWatched
    /\ stale' = g.stale
    /\ dependencies' = g.dependencies
    /\ sources' = g.sources
    /\ wstate' = g.wstate
    /\ pending' = g.pending
    /\ jobs' = g.jobs
    /\ tr' = [g.tr EXCEPT !.op = op, !.arg = arg]
    /\ observed' = [w \in Watchers |->
                      IF \E i \in 1..Len(g.tr.ran) : g.tr.ran[i] = w
                      THEN g.tr.reads ELSE observed[w]]

\* the States just constructed with values a, b, c; nothing else exists yet
Fresh(a, b, c) ==
  [value |-> [sig \in Signals |-> IF sig = "A" THEN a ELSE IF sig = "B" THEN b
                                  ELSE IF sig = "C" THEN c ELSE 0],
   subscribers |-> [sig \in Signals |-> <<>>],
   watchCount |-> [sig \in Signals |-> 0],
   isWatched |-> [sig \in States |-> FALSE],
   stale |-> [sig \in Computeds |-> TRUE],
   dependencies |-> [sig \in Computeds |-> {}],
   sources |-> [w \in Watchers |-> {}],
   wstate |-> [w \in Watchers |-> "none"],
   pending |-> [w \in Watchers |-> FALSE],
   jobs |-> <<>>, tr |-> NoTrace, currentWatcher |-> Gone,
   currentComputedStack |-> <<>>, result |-> 0]

\* the graph after  A, B, C = new State(..); X = new Computed(..); Y = new Computed(..)
Built(a, b, c) == NewComputed(NewComputed(Fresh(a, b, c), "X"), "Y")

SigInitWith(a, b, c) ==
  \E g \in {Built(a, b, c)} :
    /\ value = g.value
    /\ subscribers = [sig \in Signals |-> Compact(g.subscribers[sig])]
    /\ watchCount = g.watchCount
    /\ isWatched = g.isWatched
    /\ stale = g.stale
    /\ dependencies = g.dependencies
    /\ sources = g.sources
    /\ wstate = g.wstate
    /\ pending = g.pending
    /\ jobs = g.jobs
    /\ tr = NoTrace
    /\ observed = [w \in Watchers |-> {}]

Init == HookInit /\ SigInitWith(0, 0, 1)

\* ---- the calls on the signals ----
SetState(s, v) ==
  /\ Commit(StateSet(Graph, s, v), "set", s)
  /\ UNCHANGED hookVars

\* effect(callback): new Watcher, run
Effect(w) ==
  /\ wstate[w] = "none"
  /\ Commit(WatcherRun([Graph EXCEPT !.wstate[w] = "active"], w), "effect", w)
  /\ UNCHANGED hookVars

\* the oldest queued microtask runs
Drain ==
  /\ jobs # <<>>
  /\ Commit(WatcherJob([Graph EXCEPT !.jobs = Tail(@)], Head(jobs)), "job", Head(jobs))
  /\ UNCHANGED hookVars

\* the function effect() returned is called
Stop(w) ==
  /\ wstate[w] # "none"
  /\ Commit(WatcherStop(Graph, w), "stop", w)
  /\ UNCHANGED hookVars

SigNext ==
  \/ \E s \in States, v \in Values : SetState(s, v)
  \/ \E w \in Watchers : Effect(w)
  \/ Drain
  \/ \E w \in Watchers : Stop(w)

SigInit == HookInit /\ \E a, b, c \in Values : SigInitWith(a, b, c)

SigSpec == SigInit /\ [][SigNext]_vars

\* ---- the callers ----
GenericKinds == HookType \ {"state"}
Held == {HandleOf(h) : h \in handles}
DataFor(h) == IF h.type = "state" THEN {StateData(n) : n \in Values} ELSE InitData
StateHandles == {h \in Held : h.type = "state"}

\* a call on the registry leaves what the other parts of the model follow
Elsewhere == UNCHANGED <<asyncVars, sigVars, fxVars>>

Next ==
  \/ \E info \in InitData, k \in GenericKinds : NewHook(info, k) /\ ScnNewHook /\ Elsewhere
  \/ \E v \in Values : UseState(v) /\ ScnUseState(v) /\ Elsewhere
  \/ \E h \in StateHandles, a \in SetterArgs : SetValue(h, a) /\ ScnSetValue(h, a) /\ Elsewhere
  \/ \E h \in Held : \E info \in DataFor(h) : HookSet(h, info) /\ Abandon /\ Elsewhere
  \/ \E h \in Held, u \in Updates : HookPatch(h, u) /\ Abandon /\ Elsewhere
  \/ \E h \in Held : HookDestroy(h) /\ Abandon /\ Elsewhere
  \/ ClearAllCall /\ Abandon /\ Elsewhere
  \/ ClearAllResume /\ Abandon /\ Elsewhere
  \/ \E f \in FrameIds : StartFrame(f) /\ ScnStartFrame(f) /\ Elsewhere
  \/ EndFrame /\ ScnEndFrame /\ Elsewhere
  \/ \E f \in FrameIds : WithFrameEnter(f) /\ Abandon /\ Elsewhere
  \/ \E t \in BOOLEAN : WithFrameExit(t) /\ Abandon /\ Elsewhere
  \/ \E f \in FrameIds : ClearFrame(f) /\ Abandon /\ Elsewhere

Spec == Init /\ [][Next]_vars

\* ---- setAsync: writers queued on the mutex ----
\* Hook.setAsync(info), up to its await
SetAsyncCall(h, info) ==
  /\ Pending < MaxQueued
  /\ tickets < MaxTickets
  /\ Acquire([op |-> "setAsync", h |-> h, info |-> info, ticket |-> tickets,
              waited |-> mutex.locked])
  /\ tickets' = tickets + 1
  /\ lastAsync' = Put(lastAsync, h, info)
  /\ Ends("ok")
  /\ UNCHANGED <<regVars, frameVars, wfStack, now, handles, scn, sigVars, fxVars>>

\* Hook.setAsync(info), resumed holding the lock: the write, then release()
SetAsyncResume ==
  /\ wfStack = <<>>
  /\ microtasks # <<>>
  /\ Head(microtasks).op = "setAsync"
  /\ LET task == Head(microtasks) IN
       /\ hooks' = IF Writable(task.h) THEN [hooks EXCEPT ![task.h.idx].data = task.info]
                                       ELSE hooks
       /\ Ends(IF Writable(task.h) THEN "ok" ELSE "InvalidHook")
  /\ ReleaseResumed
  /\ UNCHANGED <<hookCounter, typeIndex, frameVars, wfStack, now, handles, scn, asyncVars,
                 sigVars, fxVars>>

\* a synchronous set() among the asynchronous ones
SetBetween(h, info) ==
  /\ HookSet(h, info)
  /\ lastAsync' = IF SetError(h) = "ok" THEN Put(lastAsync, h, info) ELSE lastAsync
  /\ UNCHANGED <<tickets, scn, sigVars, fxVars>>

AsyncNext ==
  \/ \E info \in InitData, k \in GenericKinds : NewHook(info, k) /\ UNCHANGED <<scn, asyncVars, sigVars, fxVars>>
  \/ \E h \in Held, info \in InitData : SetAsyncCall(h, info)
  \/ SetAsyncResume
  \/ \E h \in Held, info \in InitData : SetBetween(h, info)
  \/ \E h \in Held : HookDestroy(h) /\ UNCHANGED <<scn, asyncVars, sigVars, fxVars>>

AsyncSpec == Init /\ [][AsyncNext]_vars

\* ---- patch() of objects of any shape ----
PatchKeys == {"value", "listeners", "extra"}
MaxKeys == 2         \* keys of an object a caller passes
Objects == UNION {[K -> Values] : K \in {S \in SUBSET PatchKeys : Cardinality(S) <= MaxKeys}}
PatchData == {Obj(f) : f \in Objects} \cup InitData
PatchNext ==
  \/ \E info \in PatchData, k \in GenericKinds : NewHook(info, k) /\ UNCHANGED <<scn, asyncVars, sigVars, fxVars>>
  \/ \E h \in Held, u \in Objects : HookPatch(h, u) /\ UNCHANGED <<scn, asyncVars, sigVars, fxVars>>
  \/ ClearAllCall /\ UNCHANGED <<scn, asyncVars, sigVars, fxVars>>
  \/ ClearAllResume /\ UNCHANGED <<scn, asyncVars, sigVars, fxVars>>

PatchSpec == Init /\ [][PatchNext]_vars

\* ---- patchAsync, setAsync and clearAll queued on the mutex ----
\* a caller patches one key or sets an empty object; the data of a new hook is an
\* empty object or a primitive
KeyPatches == {[value |-> MaxVal], [extra |-> MaxVal]}
Blank == Obj([k \in {} |-> 0])

\* the data the writes requested of h so far leave when applied one after the other
Sequential(h) == IF h \in DOMAIN lastAsync THEN lastAsync[h] ELSE Get(h)

\* Hook.patchAsync(updates), up to the await inside setAsync
PatchAsyncCall(h, updates) ==
  /\ Pending < MaxQueued
  /\ tickets < MaxTickets
  /\ IF ~IsObject(Get(h))
     THEN /\ Ends("InvalidPatchTarget")
          /\ UNCHANGED <<lockVars, asyncVars>>
     ELSE /\ Acquire([op |-> "setAsync", h |-> h, info |-> Obj(Spread(Get(h).f, updates)),
                      ticket |-> tickets, waited |-> mutex.locked])
          /\ tickets' = tickets + 1
          /\ lastAsync' = Put(lastAsync, h,
                              IF IsObject(Sequential(h))
                              THEN Obj(Spread(Sequential(h).f, updates))
                              ELSE Sequential(h))
          /\ Ends("ok")
  /\ UNCHANGED <<regVars, frameVars, wfStack, now, handles, scn, sigVars, fxVars>>

\* Hook.clearAll(), up to its await, among other callers
ClearAllQueued ==
  /\ Pending < MaxQueued
  /\ tickets < MaxTickets
  /\ Acquire([op |-> "clearAll", h |-> NoHook, info |-> Undefined, ticket |-> tickets,
              waited |-> mutex.locked])
  /\ tickets' = tickets + 1
  /\ Ends("ok")
  /\ UNCHANGED <<regVars, frameVars, wfStack, now, handles, lastAsync, scn, sigVars, fxVars>>

\* Hook.clearAll(), resumed: no write requested before it is owed any more
ClearAllResumed ==
  /\ ClearAllResume
  /\ lastAsync' = EmptyMap
  /\ UNCHANGED <<tickets, scn, sigVars, fxVars>>

QueueNext ==
  \/ \E info \in {Blank, Prim(0)}, k \in GenericKinds :
       NewHook(info, k) /\ UNCHANGED <<scn, asyncVars, sigVars, fxVars>>
  \/ \E h \in Held, u \in KeyPatches : PatchAsyncCall(h, u)
  \/ \E h \in Held : SetAsyncCall(h, Blank)
  \/ SetAsyncResume
  \/ \E h \in Held : SetBetween(h, Blank)
  \/ ClearAllQueued
  \/ ClearAllResumed
  \/ \E h \in Held :
       /\ HookDestroy(h)
       /\ lastAsync' = IF mutex.locked THEN lastAsync ELSE Remove(lastAsync, h)
       /\ UNCHANGED <<tickets, scn, sigVars, fxVars>>

QueueSpec == Init /\ [][QueueNext]_vars

\* the microtask queue is drained: a resumed caller runs to its release
FairQueueSpec == QueueSpec /\ WF_vars(SetAsyncResume) /\ WF_vars(ClearAllResumed)

\* =================== the hook factories of a component ===================
\* One component renders in the frame "f1". Each render pass calls, in this order,
\* Context.useState, useEffect(effect, deps), useMemo(fn, deps) and useCallback(fn).
\* No asynchronous writer runs here, so tryAcquire() always finds the mutex free.
MaxPasses == 2       \* cap of the render counter of the component's frame
MaxDeps == 1         \* length of a dependency or argument array

Component == "f1"
Arrays == UNION {[1..n -> {"a", "b"}] : n \in 0..MaxDeps}

\* state values: Object.is and === disagree on the zeros and on NaN
JsValues == {"0", "-0", "1", "NaN"}
ObjectIs(a, b) == a = b
StrictEquals(a, b) ==
  IF a = "NaN" \/ b = "NaN" THEN FALSE ELSE a = b \/ {a, b} = {"0", "-0"}

\* what the memoised function returns for the arguments d
Fn(d) == [tag |-> "result", of |-> d]

\* Lib/utils.js
CompareArrays(arr1, arr2) ==
  IF Len(arr1) = Len(arr2)
  THEN \A i \in 1..Len(arr1) : \E j \in 1..Len(arr2) : arr2[j] = arr1[i]
  ELSE TRUE

\* useEffect's own comparison
DependenciesChanged(oldDeps, newDeps) ==
  IF Len(oldDeps) # Len(newDeps)
  THEN TRUE
  ELSE \E i \in 1..Len(oldDeps) : oldDeps[i] # newDeps[i]

\* ---- the constructor and patch(), as functions of the registry ----
\* the instance new Hook(info, hookType) yields at the cursor
FxHandle(hookType) ==
  IF FrameHookAt(currentFrame, currentFrameHookIndex) # NoHook
  THEN FrameHookAt(currentFrame, currentFrameHookIndex)
  ELSE [type |-> hookType, idx |-> hookCounter]

\* Hook._hooks after the constructor
FxConstructed(info, hookType) ==
  IF FrameHookAt(currentFrame, currentFrameHookIndex) # NoHook
  THEN ReusedHooks(info, FrameHookAt(currentFrame, currentFrameHookIndex))
  ELSE Put(hooks, hookCounter, HookData(info, hookType))

\* Hook._hooks after h.patch(updates)
Patched(hk, h, updates) ==
  IF IsObject(GetIn(hk, h))
  THEN [hk EXCEPT ![h.idx].data = Obj(Spread(GetIn(hk, h).f, updates))]
  ELSE hk

NoCall(op) ==
  [op |-> op, called |-> <<>>, caught |-> 0, rendered |-> FALSE, returned |-> Undefined]

\* a factory called at the cursor: the constructor's bookkeeping; the factory leaves
\* the registry as hk and ends with error e
FactoryCall(hookType, hk, e, log) ==
  /\ currentFrame = Component
  /\ ~mutex.locked
  /\ hooks' = hk
  /\ IF FrameHookAt(currentFrame, currentFrameHookIndex) # NoHook
     THEN UNCHANGED <<hookCounter, typeIndex, frames, now, handles>>
     ELSE /\ hookCounter' = hookCounter + 1
          /\ typeIndex' = Put(typeIndex, hookType,
                              (IF hookType \in DOMAIN typeIndex THEN typeIndex[hookType]
                                                                ELSE {})
                                \cup {hookCounter})
          /\ frames' = RegisterFrameHook(currentFrame, currentFrameHookIndex,
                                         [type |-> hookType, idx |-> hookCounter])
          /\ now' = now + 1
          /\ handles' = handles \cup {[type |-> hookType, idx |-> hookCounter,
                                       created |-> now]}
  /\ currentFrameHookIndex' = currentFrameHookIndex + 1
  /\ err' = e
  /\ ret' = IF e = "ok" THEN FxHandle(hookType) ELSE NoHook
  /\ fxlog' = log
  /\ UNCHANGED <<currentFrame, props, dynamicCallbacks, lockVars, wfStack, scn, asyncVars,
                 sigVars>>

\* a call of a function a factory returned
ClosureCall(hk, e, log) ==
  /\ currentFrame = Null
  /\ ~mutex.locked
  /\ hooks' = hk
  /\ Ends(e)
  /\ fxlog' = log
  /\ UNCHANGED <<hookCounter, typeIndex, frameVars, now, handles, props, dynamicCallbacks,
                 lockVars, wfStack, scn, asyncVars, sigVars>>

\* ---- the render pass ----
FxStartFrame(deps) ==
  /\ ~FrameBusy
  /\ Component \in DOMAIN frames => frames[Component].renderCount < MaxPasses
  /\ DoStartFrame(Component)
  /\ props' = [deps |-> deps, prev |-> props.deps]
  /\ fxlog' = NoCall("startFrame")
  /\ Ends("ok")
  /\ UNCHANGED <<regVars, lockVars, wfStack, now, handles, scn, asyncVars, sigVars,
                 cleanupCalls, reducerVars, dynamicCallbacks>>

FxEndFrame ==
  /\ currentFrame = Component
  /\ currentFrameHookIndex = 4
  /\ DoEndFrame
  /\ fxlog' = NoCall("endFrame")
  /\ Ends("ok")
  /\ UNCHANGED <<regVars, lockVars, wfStack, now, handles, props, scn, asyncVars, sigVars,
                 cleanupCalls, reducerVars, dynamicCallbacks>>

FirstPass == frames[Component].renderCount = 0

\* ---- Context.useState and the setter it returns ----
\* the instance at a position of the component: 0 state, 1 effect, 2 memo, 3 callback
At(position) == FrameHookAt(Component, position)
\* the listener L1 throws, L2 returns
ListenerThrows(l) == l = "L1"

\* mutant: the callbacks run outside any try/catch
Escapes_Uncaught(threw) == threw

\* what leaves the try/catch around a listener, and the one of runEffect
Escapes(threw) == FALSE

FxUseState ==
  /\ currentFrameHookIndex = 0
  /\ FactoryCall("state", FxConstructed(Obj([value |-> "0", listeners |-> <<>>]), "state"),
                 "ok",
                 [NoCall("useState") EXCEPT
                    !.returned = Prim(GetIn(FxConstructed(Obj([value |-> "0",
                                                               listeners |-> <<>>]),
                                                          "state"),
                                            FxHandle("state")).f.value)])
  /\ UNCHANGED <<cleanupCalls, reducerVars>>

\* subscribe(callback)
FxSubscribe(l) ==
  /\ At(0) # NoHook
  /\ ClosureCall(IF IsObject(Get(At(0)))
                 THEN [hooks EXCEPT ![At(0).idx].data.f.listeners = SetAdd(@, l)]
                 ELSE hooks,
                 "ok", NoCall("subscribe"))
  /\ UNCHANGED <<cleanupCalls, reducerVars>>

\* the listeners forEach reaches: all of them unless an exception leaves the loop
Reached(listeners) ==
  IF \E i \in 1..Len(listeners) : Escapes(ListenerThrows(listeners[i]))
  THEN SubSeq(listeners, 1,
              CHOOSE i \in 1..Len(listeners) :
                /\ Escapes(ListenerThrows(listeners[i]))
                /\ \A j \in 1..(i - 1) : ~Escapes(ListenerThrows(listeners[j])))
  ELSE listeners

\* setValue(newValue) of useState, newValue not a function
StateSetValue(hk, h, newValue) ==
  LET currentData == GetIn(hk, h)
      reached == Reached(currentData.f.listeners)
  IN
  IF currentData = Undefined \/ StrictEquals(currentData.f.value, newValue)
  THEN [hooks |-> hk, called |-> <<>>, caught |-> 0, threw |-> FALSE]
  ELSE [hooks |-> Patched(hk, h, [value |-> newValue]),
        called |-> [i \in 1..Len(reached) |->
                      [fn |-> reached[i], args |-> <<newValue, currentData.f.value>>]],
        caught |-> Cardinality({i \in 1..Len(reached) :
                                  /\ ListenerThrows(reached[i])
                                  /\ ~Escapes(ListenerThrows(reached[i]))}),
        threw |-> Len(reached) < Len(currentData.f.listeners)]

\* a setter argument is a value or the updater v => 1 - v
StateArgs == {[fn |-> FALSE, v |-> x] : x \in JsValues} \cup {[fn |-> TRUE, v |-> "0"]}
Updater(v) == IF v = "1" THEN "0" ELSE IF v = "NaN" THEN "NaN" ELSE "1"

\* the setState of Context.useState
FxSetState(newValue) ==
  LET oldState == Get(At(0)).f.value
      val == IF newValue.fn THEN Updater(oldState) ELSE newValue.v
      set == StateSetValue(hooks, At(0), val)
  IN
  /\ At(0) # NoHook
  /\ IsObject(Get(At(0)))
  /\ IF ObjectIs(oldState, val)
     THEN ClosureCall(hooks, "ok", NoCall("setState"))
     ELSE ClosureCall(set.hooks,
                      IF set.threw THEN "CallbackError" ELSE "ok",
                      [op |-> "setState", called |-> set.called, caught |-> set.caught,
                       rendered |-> ~set.threw, returned |-> Undefined])
  /\ UNCHANGED <<cleanupCalls, reducerVars>>

\* ---- useEffect ----
EffectData(deps) ==
  Obj([effect |-> "effect", cleanup |-> Null, dependencies |-> deps, hasRun |-> FALSE,
       isActive |-> TRUE])

\* what a run of the effect does: it returns nothing, returns a cleanup function,
\* returns a cleanup function that throws, or throws
Behaviours == {"returns", "returnsCleanup", "returnsBadCleanup", "throws"}
CleanupOf(b) ==
  IF b = "returnsCleanup" THEN "cleanup"
  ELSE IF b = "returnsBadCleanup" THEN "badCleanup"
  ELSE Null

\* runEffect()
RunEffect(hk, h, b) ==
  LET data == GetIn(hk, h)
      cleanupThrew == data.f.cleanup = "badCleanup"
      threw == cleanupThrew \/ b = "throws"
  IN
  IF data = Undefined \/ ~data.f.isActive
  THEN [hooks |-> hk, called |-> <<>>, threw |-> FALSE, invoked |-> cleanupCalls]
  ELSE [hooks |-> IF threw THEN hk
                  ELSE Patched(hk, h, [cleanup |-> CleanupOf(b), hasRun |-> TRUE]),
        called |-> (IF data.f.cleanup # Null THEN <<[fn |-> data.f.cleanup, args |-> <<>>]>> ELSE <<>>)
                     \o (IF cleanupThrew THEN <<>>
                         ELSE <<[fn |-> "effect", args |-> data.f.dependencies]>>),
        threw |-> threw,
        \* a run that stores what the effect returned starts a new count
        invoked |-> IF ~threw THEN 0
                    ELSE IF data.f.cleanup # Null THEN cleanupCalls + 1
                    ELSE cleanupCalls]

\* useEffect(effect, props.deps), the effect behaving as b if it runs
FxUseEffect(b) ==
  LET h == FxHandle("effect")
      hk1 == FxConstructed(EffectData(props.deps), "effect")
      data == GetIn(hk1, h)
      due == ~data.f.hasRun \/ DependenciesChanged(data.f.dependencies, props.deps)
      run == RunEffect(Patched(hk1, h, [dependencies |-> props.deps]), h, b)
  IN
  /\ currentFrameHookIndex = 1
  /\ UNCHANGED reducerVars
  /\ cleanupCalls' = IF data # Undefined /\ due THEN run.invoked ELSE cleanupCalls
  /\ IF data = Undefined
     \* the slot was destroyed through the cleanup handle: data.hasRun is a TypeError
     THEN FactoryCall("effect", hk1, "TypeError", NoCall("useEffect"))
     ELSE IF due
     THEN FactoryCall("effect", run.hooks,
                      IF Escapes(run.threw) THEN "CallbackError" ELSE "ok",
                      [NoCall("useEffect") EXCEPT
                         !.called = run.called,
                         !.caught = IF run.threw /\ ~Escapes(run.threw) THEN 1 ELSE 0])
     ELSE FactoryCall("effect", hk1, "ok", NoCall("useEffect"))

\* ---- useMemo ----
MemoData(deps) == Obj([result |-> Undefined, callback |-> "fn", deps |-> deps])

FxUseMemo ==
  LET h == FxHandle("memo")
      hk1 == FxConstructed(MemoData(props.deps), "memo")
      datas == GetIn(hk1, h)
      recompute == ~CompareArrays(datas.f.deps, props.deps)
      hk2 == IF recompute
             THEN Patched(hk1, h, [result |-> Fn(props.deps), deps |-> props.deps])
             ELSE hk1
  IN
  /\ currentFrameHookIndex = 2
  /\ FactoryCall("memo", hk2, "ok",
                 [NoCall("useMemo") EXCEPT
                    !.called = IF recompute THEN <<[fn |-> "fn", args |-> props.deps]>>
                                            ELSE <<>>,
                    !.returned = GetIn(hk2, h).f.result])
  /\ UNCHANGED <<cleanupCalls, reducerVars>>

\* ---- useCallback and the function it returns ----
CallbackData == Obj([args |-> <<>>, result |-> Undefined, callback |-> "fn"])

FxUseCallback ==
  /\ currentFrameHookIndex = 3
  /\ FactoryCall("callback", FxConstructed(CallbackData, "callback"), "ok",
                 NoCall("useCallback"))
  /\ UNCHANGED <<cleanupCalls, reducerVars>>

\* (...argument) => ...
FxCall(argument) ==
  LET data == Get(At(3)) IN
  /\ At(3) # NoHook
  /\ IsObject(data)
  /\ IF CompareArrays(argument, data.f.args)
     THEN ClosureCall(hooks, "ok", [NoCall("call") EXCEPT !.returned = data.f.result])
     ELSE ClosureCall(Patched(hooks, At(3), [args |-> argument,
                                                  result |-> Fn(argument)]),
                      "ok",
                      [NoCall("call") EXCEPT !.called = <<[fn |-> "fn", args |-> argument]>>,
                                             !.returned = Fn(argument)])
  /\ UNCHANGED <<cleanupCalls, reducerVars>>

FxNext ==
  \/ \E d \in Arrays : FxStartFrame(d)
  \/ FxUseState
  \/ \E b \in Behaviours : FxUseEffect(b)
  \/ FxUseMemo
  \/ FxUseCallback
  \/ FxEndFrame
  \/ \E a \in StateArgs : FxSetState(a)
  \/ \E l \in {"L1", "L2"} : FxSubscribe(l)
  \/ \E a \in Arrays : FxCall(a)

FxSpec == Init /\ [][FxNext]_vars

\* ---- the handle useEffect returns ----
MaxInvocations == 3

\* handle.cleanup() of the effect slot, called between render passes
FxCleanup ==
  LET data == Get(At(1))
      stored == data # Undefined /\ data.f.cleanup # Null
      threw == stored /\ data.f.cleanup = "badCleanup"
      destroyed == DestroyIn([hooks |-> hooks, typeIndex |-> typeIndex], At(1))
  IN
  /\ At(1) # NoHook
  /\ currentFrame = Null
  /\ ~mutex.locked
  /\ cleanupCalls < MaxInvocations
  /\ cleanupCalls' = IF stored THEN cleanupCalls + 1 ELSE cleanupCalls
  /\ hooks' = IF threw THEN hooks ELSE destroyed.hooks
  /\ typeIndex' = IF threw THEN typeIndex ELSE destroyed.typeIndex
  /\ Ends(IF threw THEN "CallbackError" ELSE "ok")
  /\ fxlog' = [NoCall("cleanup") EXCEPT
                 !.called = IF stored THEN <<[fn |-> data.f.cleanup, args |-> <<>>]>>
                                      ELSE <<>>]
  /\ UNCHANGED <<hookCounter, frameVars, now, handles, props, reducerVars, dynamicCallbacks,
                 lockVars, wfStack, scn, asyncVars, sigVars>>

CleanupSpec == Init /\ [][FxNext \/ FxCleanup]_vars

\* ---- useReducer: a component whose only hook is a reducer ----
MaxState == 5
Actions == {"inc", "dbl"}
\* the reducer the component passes
Reducer(state, action) == IF action = "inc" THEN state + 1 ELSE 2 * state

\* the render pass under way
Pass == frames[Component].renderCount

\* useReducer(reducer, 0): the closures of this pass hold the slot's data object
RdUseReducer ==
  LET h == FxHandle("reducer")
      hk1 == FxConstructed(Obj([reducer |-> "reducer", state |-> 0]), "reducer")
  IN
  /\ currentFrameHookIndex = 0
  /\ FactoryCall("reducer", hk1, "ok", NoCall("useReducer"))
  /\ closures' = Put(closures, Pass, GetIn(hk1, h))
  /\ UNCHANGED <<cleanupCalls, folded>>

RdEndFrame ==
  /\ currentFrame = Component
  /\ currentFrameHookIndex = 1
  /\ DoEndFrame
  /\ fxlog' = NoCall("endFrame")
  /\ Ends("ok")
  /\ UNCHANGED <<regVars, lockVars, wfStack, now, handles, props, scn, asyncVars, sigVars,
                 cleanupCalls, reducerVars, dynamicCallbacks>>

\* dispatch(action) of the pair useReducer returned in pass p
RdDispatch(p, action) ==
  LET data == closures[p]
      st == Reducer(data.f.state, action)
      hk1 == Patched(hooks, At(0), [state |-> st])
  IN
  /\ Reducer(folded, action) <= MaxState
  /\ ClosureCall(hk1, "ok",
                 [NoCall("dispatch") EXCEPT
                    !.called = <<[fn |-> "reducer", args |-> <<data.f.state, action>>]>>])
  /\ closures' = Put(closures, p, GetIn(hk1, At(0)))
  /\ folded' = Reducer(folded, action)
  /\ UNCHANGED cleanupCalls

\* the state getter of the pair useReducer returned in pass p
GetState(p) == closures[p].f.state

ReducerNext ==
  \/ FxStartFrame(<<>>)
  \/ RdUseReducer
  \/ RdEndFrame
  \/ \E p \in DOMAIN closures, a \in Actions : RdDispatch(p, a)

ReducerSpec == Init /\ [][ReducerNext]_vars

\* ---- Context: the dynamic callbacks of an attribute ----
MaxCallbacks == 2
Keys == {"title", "slot"}
\* f and f2 are two functions with the same source text
Callbacks == {"f", "f2", "g"}
\* `${callback}`
SourceText(callback) == IF callback = "f2" THEN "f" ELSE callback

\* this.dynamicCallbacks.get(key) || []
CallbacksOf(dc, key) == IF key \in DOMAIN dc THEN dc[key] ELSE <<>>

ExistsDynamicCallback(dc, key, callback) ==
  /\ key \in DOMAIN dc
  /\ \E i \in 1..Len(dc[key]) : SourceText(dc[key][i].handler) = SourceText(callback)

\* this.dynamicCallbacks after registerDynamicCallback(key, callback, null, ensureNoDuplicates)
Registered(dc, key, callback, ensureNoDuplicates) ==
  IF ~(ensureNoDuplicates /\ ExistsDynamicCallback(dc, key, callback))
  THEN Put(dc, key, Append(CallbacksOf(dc, key),
                           [handler |-> callback, metadata |-> [oldData |-> Null]]))
  ELSE dc

\* the test of the filter in unregisterDynamicCallback
Kept(item, callback) == item.handler = callback

\* this.dynamicCallbacks after unregisterDynamicCallback(key, callback)
Unregistered(dc, key, callback) ==
  IF key \in DOMAIN dc
  THEN LET Test(item) == Kept(item, callback)
       IN Put(dc, key, SelectSeq(dc[key], Test))
  ELSE dc

CtxCall(op, dc) ==
  /\ dynamicCallbacks' = dc
  /\ fxlog' = NoCall(op)
  /\ Ends("ok")
  /\ UNCHANGED <<regVars, frameVars, lockVars, wfStack, now, handles, scn, asyncVars,
                 sigVars, props, cleanupCalls, reducerVars>>

RegisterDynamicCallback(key, callback, ensureNoDuplicates) ==
  /\ Len(CallbacksOf(dynamicCallbacks, key)) < MaxCallbacks
  /\ CtxCall("registerDynamicCallback",
             Registered(dynamicCallbacks, key, callback, ensureNoDuplicates))

UnregisterDynamicCallback(key, callback) ==
  CtxCall("unregisterDynamicCallback", Unregistered(dynamicCallbacks, key, callback))

CtxNext ==
  \/ \E k \in Keys, cb \in Callbacks, e \in BOOLEAN : RegisterDynamicCallback(k, cb, e)
  \/ \E k \in Keys, cb \in Callbacks : UnregisterDynamicCallback(k, cb)

CtxSpec == Init /\ [][CtxNext]_vars

\* ======================= the claims =======================
AnyData == InitData \cup {StateData(n) : n \in Values}
ActiveFrames == {f \in DOMAIN frames : frames[f].isActive}
Resolves(h) == h.idx \in DOMAIN hooks /\ hooks[h.idx].type = h.type

\* C1: call-order stability.  The position map of a frame never changes a
\* position it holds, and a construction at a position that holds an
\* instance of the requested kind returns an instance with that index,
\* creates no record, leaves the registry as it is, and get() on the instance
\* returns the data of the slot (it is never undefined).
C1_CallOrderStability ==
  [][/\ \A f \in (DOMAIN frames) \cap (DOMAIN frames') :
          \A p \in DOMAIN frames[f].hooks :
            p \in DOMAIN frames'[f].hooks /\ frames'[f].hooks[p] = frames[f].hooks[p]
     /\ \A k \in HookType, info \in AnyData :
          (/\ currentFrame # Null
           /\ FrameHookAt(currentFrame, currentFrameHookIndex) # NoHook
           /\ FrameHookAt(currentFrame, currentFrameHookIndex).type = k
           /\ Construct(info, k))
          => /\ ret'.idx = FrameHookAt(currentFrame, currentFrameHookIndex).idx
             /\ UNCHANGED regVars
             /\ GetIn(hooks', ret').tag # "undefined"]_vars

\* C2: useState persistence.  At the end of the scenario startFrame(f);
\* useState at position 0; endFrame; setter calls; startFrame(f); useState(init)
\* at position 0, the getter of the last call returns the value of the last
\* effective setter call (the first call's value when there was none), not init.
C2_UseStatePersistence ==
  scn.phase = "replayed" =>
    /\ IsObject(Get(scn.handle))
    /\ Get(scn.handle).f.value = scn.expect

\* a replay whose init differs from the value a setter stored in between
C2_Witness ==
  scn.phase = "replayed" /\ scn.sets = 1 /\ scn.init # scn.expect

\* C3: kind invariant.  A construction inside an active frame at a position
\* that holds an instance of another kind throws HookKindMismatch and leaves
\* the registry, the by-kind index, the frames and the cursor unchanged.
C3_KindMismatch ==
  [][\A k \in HookType, info \in AnyData :
       (/\ currentFrame # Null
        /\ FrameHookAt(currentFrame, currentFrameHookIndex) # NoHook
        /\ FrameHookAt(currentFrame, currentFrameHookIndex).type # k
        /\ Construct(info, k))
       => /\ err' = "HookKindMismatch"
          /\ ret' = NoHook
          /\ UNCHANGED <<hooks, hookCounter, typeIndex, frames, currentFrame,
                         currentFrameHookIndex, mutex>>]_vars

\* a mismatch was thrown at a position past the first of the active frame
C3_Witness ==
  /\ err = "HookKindMismatch"
  /\ currentFrame # Null
  /\ FrameHookAt(currentFrame, currentFrameHookIndex) # NoHook
  /\ Resolves(FrameHookAt(currentFrame, currentFrameHookIndex))

C7_ClearFrameDestroys ==
  [][\A f \in FrameIds :
       (f \in DOMAIN frames /\ ClearFrame(f))
       => /\ f \notin DOMAIN frames'
          /\ \A i \in DOMAIN hooks' : hooks'[i].frameId # f
          /\ \A k \in DOMAIN typeIndex' : \A i \in typeIndex'[k] :
               ~(i \in DOMAIN hooks /\ hooks[i].frameId = f)]_vars

\* C8: every successful startFrame(id), the creating one included, increments
\* the render counter of id by one and resets the cursor to zero.
C8_RenderCounter ==
  [][\A f \in FrameIds :
       (currentFrame = Null /\ (StartFrame(f) \/ WithFrameEnter(f)))
       => /\ frames'[f].renderCount =
               (IF f \in DOMAIN frames THEN frames[f].renderCount ELSE 0) + 1
          /\ currentFrameHookIndex' = 0]_vars

\* C9: indices are unique for ever: a Hook instance handed out earlier resolves
\* to the record it was created for or to nothing, never to another record.
C9_HandleIdentity ==
  \A h \in handles : Resolves(HandleOf(h)) => hooks[h.idx].created = h.created

\* C10: every instance in the position map of a registered frame has its
\* record in the registry, with the same kind.
C10_FrameHooksLive ==
  \A f \in DOMAIN frames : \A p \in DOMAIN frames[f].hooks : Resolves(frames[f].hooks[p])

\* a synchronous mutator refused for the lock: nothing is changed, nothing queued
LockRefused ==
  /\ err' = "LockContention"
  /\ UNCHANGED <<regVars, frameVars, lockVars>>

\* the constructor call creates a record (no instance to reuse at the cursor)
Creates == currentFrame = Null \/ FrameHookAt(currentFrame, currentFrameHookIndex) = NoHook

\* C11 (as stated): while the mutex is held, the creation of a record, set(),
\* patch() and destroy() all throw the lock-contention error and leave the
\* registry, the by-kind index, the frames and the mutex with its queue unchanged.
C11_LockContention ==
  [][mutex.locked =>
       /\ \A k \in HookType, info \in AnyData : (Creates /\ Construct(info, k)) => LockRefused
       /\ \A h \in Held, info \in AnyData : HookSet(h, info) => LockRefused
       /\ \A h \in Held, u \in Updates : HookPatch(h, u) => LockRefused
       /\ \A h \in Held : HookDestroy(h) => LockRefused]_vars

\* C11 (amended): while the mutex is held, the creation of a record, set(),
\* destroy(), and patch() of a hook whose data is an object, throw the
\* lock-contention error and leave the registry, the by-kind index, the frames
\* and the mutex with its queue unchanged (a step from a held mutex that is not
\* such a refusal is none of these calls).
C11_LockContentionOnObjects ==
  [][(mutex.locked /\ ~LockRefused) =>
       /\ \A k \in HookType, info \in AnyData : ~(Creates /\ Construct(info, k))
       /\ \A h \in Held, info \in AnyData : ~HookSet(h, info)
       /\ \A h \in Held, u \in Updates : ~(IsObject(Get(h)) /\ HookPatch(h, u))
       /\ \A h \in Held : ~HookDestroy(h)]_vars

\* a mutator was refused between the grant of the lock and the holder's resumption
C11_Witness ==
  /\ err = "LockContention"
  /\ mutex.locked
  /\ microtasks # <<>>
  /\ \E h \in Held : IsObject(Get(h))

\* C13: patch() of a hook whose data is not an object (a primitive, or nothing
\* because the record is gone) throws InvalidPatchTarget and leaves the
\* registry, the frames and the mutex unchanged.
C13_InvalidPatchTarget ==
  [][\A h \in Held, u \in Updates :
       (~IsObject(Get(h)) /\ HookPatch(h, u))
       => /\ err' = "InvalidPatchTarget"
          /\ UNCHANGED <<regVars, frameVars, lockVars>>]_vars

\* patch() was refused while a record with primitive data exists
C13_Witness ==
  /\ err = "InvalidPatchTarget"
  /\ \E h \in Held : Get(h).tag = "prim"

\* C14: while the mutex is held, no step other than the holder's own changes
\* the registry, the by-kind index, the frames, the active frame or its cursor.
C14_SerializedByMutex ==
  [][(mutex.locked /\ ~ClearAllResume /\ ~SetAsyncResume)
     => UNCHANGED <<regVars, frameVars>>]_vars

\* C12: patch(updates) of a hook whose data is an object, the mutex being free,
\* is a shallow merge: afterwards get() returns an object whose keys are those
\* of the old data and of updates, every key of updates with the value given
\* and every other key with its old value; the record keeps its index and its
\* kind, and no other record changes.
C12_PatchMerges ==
  [][\A h \in Held, u \in Objects :
       (IsObject(Get(h)) /\ ~mutex.locked /\ HookPatch(h, u))
       => /\ err' = "ok"
          /\ IsObject(GetIn(hooks', h))
          /\ DOMAIN GetIn(hooks', h).f = (DOMAIN Get(h).f) \cup (DOMAIN u)
          /\ \A k \in DOMAIN u : GetIn(hooks', h).f[k] = u[k]
          /\ \A k \in (DOMAIN Get(h).f) \ (DOMAIN u) : GetIn(hooks', h).f[k] = Get(h).f[k]
          /\ DOMAIN hooks' = DOMAIN hooks
          /\ hooks'[h.idx].index = hooks[h.idx].index
          /\ hooks'[h.idx].type = hooks[h.idx].type
          /\ \A i \in DOMAIN hooks : i # h.idx => hooks'[i] = hooks[i]
          /\ UNCHANGED <<hookCounter, typeIndex>>]_vars

\* a record holds more keys than any caller passed at once: a patch has added
\* a key to the keys the data had
C12_Witness ==
  \E h \in Held : IsObject(Get(h)) /\ DOMAIN Get(h).f = PatchKeys

\* the callers of acquire() not yet resumed, the one granted first
Waiting == microtasks \o mutex.queue

\* C15: the callers of acquire() get the lock in the order of their calls, one
\* per release: the caller resumed is the earliest of those waiting and its
\* setAsync writes its data; so when no caller is left, each hook holds the
\* data of the last write requested of it.
C15_FifoGrants ==
  [][/\ SetAsyncResume
        => /\ \A i \in 1..Len(Waiting) : Head(microtasks).ticket <= Waiting[i].ticket
           /\ Writable(Head(microtasks).h)
                => GetIn(hooks', Head(microtasks).h) = Head(microtasks).info
           /\ Len(microtasks') <= 1
     /\ \A i, j \in 1..Len(Waiting') : i < j => Waiting'[i].ticket < Waiting'[j].ticket
     /\ (microtasks' = <<>> /\ mutex'.queue = <<>>)
          => \A h \in DOMAIN lastAsync' :
               (h.idx \in DOMAIN hooks' /\ hooks'[h.idx].type = h.type)
                 => GetIn(hooks', h) = lastAsync'[h]]_vars

\* a caller that had to wait has been granted the lock by a release while
\* another write, of other data to the same hook, still waits behind it
C15_Witness ==
  /\ microtasks # <<>>
  /\ mutex.queue # <<>>
  /\ Head(microtasks).waited
  /\ Head(mutex.queue).h = Head(microtasks).h
  /\ Head(mutex.queue).info # Head(microtasks).info
  /\ Resolves(Head(microtasks).h)

\* the mutex as each step leaves it: held exactly while a granted caller has
\* not resumed, by one caller at most; waiters only while it is held
OneHolder ==
  /\ Len(microtasks') <= 1
  /\ mutex'.locked <=> microtasks' # <<>>
  /\ mutex'.queue # <<>> => mutex'.locked

\* C16: at most one caller holds the mutex; a release with waiters passes the
\* lock to the first of them without marking the mutex free; while it is held,
\* a synchronous mutator (tryAcquire) is refused and changes neither the lock nor
\* the queue, and a later acquire() is queued behind the waiters.
C16_MutualExclusion ==
  [][/\ OneHolder
     /\ (SetAsyncResume /\ mutex.queue # <<>>)
          => /\ mutex'.locked
             /\ microtasks' = <<Head(mutex.queue)>>
             /\ mutex'.queue = Tail(mutex.queue)
     /\ (mutex.locked /\ ~SetAsyncResume)
          => \/ err' = "LockContention" /\ UNCHANGED <<lockVars, regVars>>
             \/ /\ tickets' = tickets + 1
                /\ microtasks' = microtasks
                /\ Len(mutex'.queue) = Len(mutex.queue) + 1
                /\ SubSeq(mutex'.queue, 1, Len(mutex.queue)) = mutex.queue
                /\ mutex'.locked
                /\ UNCHANGED regVars]_vars

\* a synchronous mutator was refused while the waiter the lock was passed to
\* had not resumed and another caller waited
C16_Witness ==
  /\ err = "LockContention"
  /\ microtasks # <<>>
  /\ Head(microtasks).waited
  /\ mutex.queue # <<>>

\* ---- signals ----

\* the fields of every State, Computed and Watcher, and the queued Watcher jobs
SignalFields ==
  <<value, subscribers, watchCount, isWatched, stale, dependencies, sources, wstate,
    pending, jobs>>

\* a call that evaluated nothing, ran no Watcher callback, fired no lifecycle
\* callback and reached no Computed
Silent(t) ==
  /\ \A c \in Computeds : t.evals[c] = 0
  /\ t.ran = <<>> /\ t.fired = <<>> /\ t.updates = <<>> /\ t.skipped = {}
  /\ t.reads = {} /\ t.untracks = {}

\* C17: State.set(v) with v equal (Object.is) to the stored value changes no
\* field of any signal or watcher, notifies no subscriber, schedules no Watcher
\* run and fires no lifecycle callback
C17_EqualityGating ==
  [][\A s \in States : \A v \in Values :
       (tr'.op = "set" /\ tr'.arg = s /\ value[s] = v /\ SetState(s, v))
          => (UNCHANGED SignalFields /\ Silent(tr'))]_vars

\* an equal value was just set on a State that a fresh Computed and an active
\* Watcher subscribe to and whose watched callback is still due: a set that
\* notified would have reached them and fired the callback
C17_Witness ==
  /\ tr.op = "set" /\ Silent(tr)
  /\ watchCount[tr.arg] > 0 /\ ~isWatched[tr.arg]
  /\ \E c \in Computeds : ~stale[c] /\ Has(subscribers[tr.arg], c)
  /\ \E w \in Watchers : wstate[w] = "active" /\ ~pending[w] /\ Has(subscribers[tr.arg], w)

\* how many queued microtasks are runs of Watcher w
Queued(q, w) == Cardinality({i \in 1..Len(q) : q[i] = w})

\* C18: a set() (or stop()) never runs a Watcher callback; a changed write to a
\* State that an active Watcher's last run read leaves exactly one run of that
\* Watcher queued, however many such writes came before; no Watcher is ever
\* queued twice; and when the microtask runs, the callback runs exactly once and
\* nothing of that Watcher stays queued
C18_BatchedReactivity ==
  [][/\ tr'.op \in {"set", "stop"} => tr'.ran = <<>>
     /\ \A w \in Watchers : Queued(jobs', w) <= 1
     /\ \A w \in Watchers : \A s \in States : \A v \in Values :
          (/\ tr'.op = "set" /\ tr'.arg = s
           /\ wstate[w] = "active" /\ s \in sources[w] /\ value[s] # v
           /\ SetState(s, v))
            => (pending'[w] /\ Queued(jobs', w) = 1)
     /\ (tr'.op = "job" /\ Drain /\ wstate[Head(jobs)] = "active")
            => (/\ tr'.ran = <<Head(jobs)>>
                /\ ~pending'[Head(jobs)]
                /\ Queued(jobs', Head(jobs)) = 0)]_vars

\* a changed write reached a Watcher whose run was already queued by an earlier
\* write of the same tick: it is still queued once
C18_Witness ==
  /\ tr.op = "set" /\ tr.ran = <<>>
  /\ \E w \in tr.skipped :
       /\ wstate[w] = "active" /\ pending[w] /\ Queued(jobs, w) = 1
       /\ tr.arg \in sources[w]

\* C19: once C has flipped from true to false the dependency set of X is
\* {C, B}; from then on a changed write to B recomputes X, which takes the value
\* written, and A neither holds X as a subscriber nor reaches X with a write
C19_DependencyRebuild ==
  [][/\ (tr'.op = "set" /\ value["C"] = 1 /\ SetState("C", 0))
          => dependencies'["X"] = {"C", "B"}
     /\ \A v \in Values :
          (/\ tr'.op = "set" /\ tr'.arg = "B"
           /\ dependencies["X"] = {"C", "B"} /\ value["C"] = 0 /\ value["B"] # v
           /\ SetState("B", v))
            => (tr'.evals["X"] > 0 /\ value'["X"] = v)
     /\ \A v \in Values :
          (/\ tr'.op = "set" /\ tr'.arg = "A"
           /\ dependencies["X"] = {"C", "B"}
           /\ SetState("A", v))
            => (/\ ~Has(subscribers'["A"], "X")
                /\ \A i \in 1..Len(tr'.updates) :
                     ~(tr'.updates[i].to = "X" /\ tr'.updates[i].from = "A"))]_vars

\* what the compute function of X returns for the values the States hold
XNow == IF value["C"] = 1 THEN value["A"] ELSE value["B"]

\* C20: every Computed.update call ends with the flag stale; a call that finds
\* the flag fresh and its source tracked recomputes; a call that finds the flag
\* stale recomputes nothing, notifies nobody and leaves the stored value; and a
\* call finds the flag stale whenever no _addSubscriber call on the Computed
\* came since the previous update call (of this or of an earlier step)
C20_FreshnessQuirk ==
  [][\A i \in 1..Len(tr'.updates) :
       LET e == tr'.updates[i] IN
       /\ e.staleAfter
       /\ (e.fresh /\ e.tracked) => e.evaluated
       /\ ~e.fresh => (~e.evaluated /\ ~e.notified /\ e.same)
       /\ (e.subs = 0 /\ stale[e.to]) => ~e.fresh
       /\ \A j \in 1..(i - 1) :
            (tr'.updates[j].to = e.to /\ tr'.updates[j].subs = e.subs) => ~e.fresh]_vars

\* an update from a tracked State reached X with the flag stale and was
\* swallowed, although X.value is no longer what its compute function returns
C20_Witness ==
  /\ tr.op = "set"
  /\ \E i \in 1..Len(tr.updates) :
       /\ tr.updates[i].to = "X" /\ tr.updates[i].from = tr.arg
       /\ ~tr.updates[i].fresh /\ tr.updates[i].tracked /\ ~tr.updates[i].evaluated
  /\ value["X"] # XNow

\* what the compute function of a Computed returns for the values the States
\* hold (Y through X)
ValueNow(c) == IF c = "X" THEN XNow ELSE (XNow + value["A"]) % (MaxVal + 1)

\* C21: every get() of a Computed made by a Watcher run or by an evaluating
\* Computed in the call that just ended returned what the compute function of
\* that Computed yields on the values the States hold
C21_NeverObservablyStale ==
  \A r \in tr.reads : r[2] = ValueNow(r[1])

\* the step starts the callback of Watcher w
Starts(t, w) == \E i \in 1..Len(t.ran) : t.ran[i] = w

\* C22: a stopped Watcher is in no subscriber set and has no sources; no step
\* starts its callback or queues a run of it, whether the step is the microtask
\* queued before stop(), a write to a former source, or anything else; and
\* stop() on a stopped Watcher changes no field
C22_WatcherCancellation ==
  [][\A w \in Watchers :
       /\ wstate'[w] = "stopped"
            => (sources'[w] = {} /\ \A sig \in Signals : ~Has(subscribers'[sig], w))
       /\ wstate[w] = "stopped"
            => (/\ wstate'[w] = "stopped"
                /\ ~Starts(tr', w)
                /\ Queued(jobs', w) <= Queued(jobs, w))
       /\ (tr'.op = "stop" /\ tr'.arg = w /\ wstate[w] = "stopped" /\ Stop(w))
            => UNCHANGED SignalFields]_vars

\* the microtask of a Watcher that was stopped after it was queued has run
\* without starting the callback
C22_Witness ==
  /\ tr.op = "job" /\ wstate[tr.arg] = "stopped" /\ tr.ran = <<>>
  /\ pending[tr.arg]

C24_WatchedLifecycle ==
  [][/\ tr'.op # "set" => (tr'.fired = <<>> /\ isWatched' = isWatched)
     /\ \A s \in States :
          (tr'.op = "set" /\ tr'.arg = s /\ value'[s] # value[s])
            => IF Members(subscribers'[s]) # {} /\ ~isWatched[s]
               THEN tr'.fired = << <<s, "watched">> >> /\ isWatched'[s]
               ELSE IF Members(subscribers'[s]) = {} /\ isWatched[s]
               THEN tr'.fired = << <<s, "unwatched">> >> /\ ~isWatched'[s]
               ELSE tr'.fired = <<>> /\ isWatched'[s] = isWatched[s]]_vars

\* C25: when no microtask is queued, every Computed that the latest run of an
\* active Watcher read has, as the value its compute function yields on the
\* States now, the value that run observed
C25_NoMissedChange ==
  jobs = <<>> =>
    \A w \in Watchers :
      wstate[w] = "active" => \A r \in observed[w] : r[2] = ValueNow(r[1])


\* ---- the hook factories ----
Ran(log, f) == \E i \in 1..Len(log.called) : log.called[i].fn = f

\* C26: the render callback is invoked exactly when the setter of Context.useState is
\* given a genuinely new value: an invocation follows the stored state changing to
\* that value, and a call with the current value changes nothing and invokes nothing.
C26_RenderOnNewValue ==
  [][\A a \in StateArgs :
       (fxlog'.op = "setState" /\ FxSetState(a)) =>
         LET oldState == Get(At(0)).f.value
             val == IF a.fn THEN Updater(oldState) ELSE a.v
         IN /\ fxlog'.rendered = ~ObjectIs(oldState, val)
            /\ fxlog'.rendered =>
                 /\ hooks'[At(0).idx].data.f.value = val
                 /\ hooks[At(0).idx].data.f.value # val
            /\ ObjectIs(oldState, val) => hooks' = hooks]_vars

\* the records of the registry other than the one of h are as they were
OthersKept(h) ==
  /\ DOMAIN hooks' = DOMAIN hooks \cup {h.idx}
  /\ \A i \in DOMAIN hooks \ {h.idx} : hooks'[i] = hooks[i]

\* the frame is still the active one and its positions hold what they held
FrameKept ==
  /\ currentFrame' = currentFrame
  /\ \A i \in DOMAIN frames[Component].hooks :
       frames'[Component].hooks[i] = frames[Component].hooks[i]
  /\ frames'[Component].isActive = frames[Component].isActive

\* C27: an exception thrown by an effect, by a cleanup function or by a state listener
\* does not reach the caller of useEffect or of the setter, does not keep the remaining
\* listeners from being called, leaves the frame active with its cursor one further
\* and its positions as they were, and leaves the data of every other hook unchanged.
C27_CallbackErrorIsolation ==
  [][/\ \A b \in Behaviours :
          (fxlog'.op = "useEffect" /\ FxUseEffect(b)) =>
            /\ err' = "ok"
            /\ FrameKept
            /\ currentFrameHookIndex' = currentFrameHookIndex + 1
            /\ frames'[Component].hooks[1] = FxHandle("effect")
            /\ OthersKept(FxHandle("effect"))
     /\ \A a \in StateArgs :
          (fxlog'.op = "setState" /\ FxSetState(a)) =>
            /\ err' = "ok"
            /\ fxlog'.called # <<>> =>
                 [i \in 1..Len(fxlog'.called) |-> fxlog'.called[i].fn]
                   = Get(At(0)).f.listeners
            /\ frames' = frames
            /\ OthersKept(At(0))]_vars

\* a setter call whose first listener threw and whose second listener was still called,
\* in a component whose effect has thrown on every pass so far
C27_Witness ==
  /\ fxlog.op = "setState"
  /\ fxlog.caught = 1
  /\ Len(fxlog.called) = 2
  /\ fxlog.called[1].fn = "L1"
  /\ err = "ok"
  /\ At(1) # NoHook
  /\ ~Get(At(1)).f.hasRun

\* C28: useEffect runs the effect on the first pass and on the later passes whose deps
\* differ from those of the pass before; on a pass whose deps are unchanged since a
\* successful run it does not run the effect.
C28_EffectRunsOnChange ==
  [][\A b \in Behaviours :
       (fxlog'.op = "useEffect" /\ FxUseEffect(b)) =>
         /\ FirstPass => Ran(fxlog', "effect")
         /\ (~FirstPass /\ props.deps # props.prev) => Ran(fxlog', "effect")
         /\ (~FirstPass /\ props.deps = props.prev /\ Get(At(1)).f.hasRun)
              => ~Ran(fxlog', "effect")]_vars

\* C29: useMemo returns fn(...deps) for the deps of the pass; it calls fn on the first
\* pass and on each later pass whose deps differ from the pass before, and on no other.
C29_MemoCaches ==
  [][(fxlog'.op = "useMemo" /\ FxUseMemo) =>
       /\ fxlog'.returned = Fn(props.deps)
       /\ Ran(fxlog', "fn") = (FirstPass \/ props.deps # props.prev)]_vars

\* C30: the function useCallback returns answers fn(...args) for every args it is
\* called with.
C30_CallbackResult ==
  [][\A a \in Arrays :
       (fxlog'.op = "call" /\ FxCall(a)) => fxlog'.returned = Fn(a)]_vars


\* ---- the subscriber graph ----
\* C36: between calls a signal has a Computed among its subscribers exactly when the
\* signal is among that Computed's dependencies, and a Watcher exactly when the signal
\* is among that Watcher's sources.
C36_GraphSymmetry ==
  \A sig \in Signals :
    /\ \A c \in Computeds : Has(subscribers[sig], c) <=> sig \in dependencies[c]
    /\ \A w \in Watchers : Has(subscribers[sig], w) <=> sig \in sources[w]

\* a Watcher and two Computeds are subscribed, one Computed below the other
C36_Witness ==
  /\ tr.op # ""
  /\ Has(subscribers["Y"], "W2")
  /\ Has(subscribers["X"], "Y")
  /\ \E s \in States : Has(subscribers[s], "X") /\ Has(subscribers[s], "W1")

\* C37: the watch count of every State and Computed is the number of distinct
\* subscribers in its subscriber set.
C37_WatchCountExact ==
  \A sig \in Signals : watchCount[sig] = Cardinality(Members(subscribers[sig]))

\* C38: one State.set call ends, and runs the compute function of each Computed at
\* most once, although a Computed that recomputes leaves the State's subscriber set
\* and enters it again at the end while the notification loop walks the set.
C38_SetTerminates ==
  tr.op = "set" => ~tr.cut /\ \A c \in Computeds : tr.evals[c] <= 1


\* ---- the mutex under asynchronous writers ----
\* nobody waits for the mutex or holds it
Quiescent == microtasks = <<>> /\ mutex.queue = <<>>

\* C32: overlapping patchAsync and setAsync calls on one hook leave, once all have
\* settled, the data that applying them one after the other in the order of the
\* calls leaves: no update is lost.
C32_PatchAsyncAtomic ==
  Quiescent =>
    \A h \in DOMAIN lastAsync :
      (h.idx \in DOMAIN hooks /\ hooks[h.idx].type = h.type) => Get(h) = lastAsync[h]

\* C33: the mutex is held only while a caller granted the lock has not finished, and
\* callers are queued only while it is held; with no asynchronous operation pending
\* it is unlocked and its queue is empty.
C33_MutexNotLeaked ==
  /\ mutex.locked => microtasks # <<>>
  /\ mutex.queue # <<>> => mutex.locked
  /\ Quiescent => ~mutex.locked

\* a setAsync on a hook removed in the meantime was rejected, and left the mutex free
C33_Witness ==
  /\ err = "InvalidHook"
  /\ Quiescent
  /\ ~mutex.locked
  /\ tickets > 1

\* the caller with ticket t waits for the mutex or has not yet resumed
Waits(t) == \E i \in 1..Len(Waiting) : Waiting[i].ticket = t

\* C34: under fair scheduling of the microtasks every acquire() caller is granted the
\* lock and finishes.
C34_NoStarvation ==
  \A t \in 0..(MaxTickets - 1) : Waits(t) ~> ~Waits(t)

\* a caller waits behind two others
C34_Witness ==
  /\ Len(mutex.queue) = 2
  /\ microtasks # <<>>
  /\ mutex.queue[2].op = "clearAll"


\* ---- the by-kind index ----
\* the records of a kind that are in the registry
Live(k) == {i \in DOMAIN hooks : hooks[i].type = k}

\* C35: the by-kind index holds under each kind exactly the indices of the records of
\* that kind in the registry, has no entry for a kind without records, and
\* getHooksByType(kind) is exactly the records of that kind.
C35_IndexConsistent ==
  \A k \in HookType :
    /\ k \in DOMAIN typeIndex => typeIndex[k] = Live(k) /\ Live(k) # {}
    /\ k \notin DOMAIN typeIndex => Live(k) = {}
    /\ GetHooksByType(k) = {hooks[i] : i \in Live(k)}

\* the last record of one kind is gone and its entry with it, while a record of the
\* other kind remains
C35_Witness ==
  /\ \E h \in Held : h.type \notin DOMAIN typeIndex
  /\ \E k \in HookType : k \in DOMAIN typeIndex /\ Live(k) # {}

\* C39: no cleanup function an effect returned is invoked more than once, whatever
\* the render passes, the effect runs that throw and the calls of the cleanup handle.
C39_CleanupOnce == cleanupCalls <= 1

\* C40: whatever pass a dispatch function comes from, the reducer slot holds the left
\* fold of the reducer over all dispatched actions in call order, and the state getter
\* of every pass returns that state.
C40_DispatchFolds ==
  closures # EmptyMap =>
    /\ Get(At(0)).f.state = folded
    /\ \A p \in DOMAIN closures : GetState(p) = folded

\* the functions registered for a key
HandlersOf(dc, key) == {CallbacksOf(dc, key)[i].handler : i \in 1..Len(CallbacksOf(dc, key))}

\* C31: unregisterDynamicCallback(key, cb) removes cb from the callbacks of key and
\* leaves the other callbacks of key and the callbacks of every other key registered;
\* registering a callback that was not registered and unregistering it again gives
\* back the callbacks that were registered before.
C31_UnregisterRemovesOnly ==
  [][\A k \in Keys, cb \in Callbacks :
       /\ (fxlog'.op = "unregisterDynamicCallback" /\ UnregisterDynamicCallback(k, cb))
            => /\ HandlersOf(dynamicCallbacks', k) = HandlersOf(dynamicCallbacks, k) \ {cb}
               /\ \A k2 \in Keys \ {k} :
                    CallbacksOf(dynamicCallbacks', k2) = CallbacksOf(dynamicCallbacks, k2)
       /\ \A e \in BOOLEAN :
            (/\ fxlog'.op = "registerDynamicCallback"
             /\ RegisterDynamicCallback(k, cb, e)
             /\ cb \notin HandlersOf(dynamicCallbacks, k))
            => \A k2 \in Keys :
                 HandlersOf(Unregistered(dynamicCallbacks', k, cb), k2)
                   = HandlersOf(dynamicCallbacks, k2)]_vars

====
